---------------------------- MODULE Spec2Model ----------------------------
(***************************************************************************)
(* A model of commit-msg-lint (breml/githooks): the commit-range resolver, *)
(* the commit message parser, the rule engine and the validation run.      *)
(*                                                                         *)
(* Three specifications share the module:                                  *)
(*   SpecRange  the two resolvers called on an arbitrary commit graph      *)
(*   SpecParse  ParseCommitMessage called on an arbitrary message          *)
(*   Spec       a run of the pre-push hook (runStdinMode) over a stream of *)
(*              ref-update lines                                           *)
(***************************************************************************)
EXTENDS Integers, Sequences, FiniteSets, TLC

\* ------------------------------------------------------------------ bounds

\* Number of commit objects in the repository a resolver is called on.
NumCommits == 4

\* Number of commit objects in the repository a hook run works on.
RunCommits == 3

\* Number of commit objects in the repository of a run with flags.
ArgCommits == 3

\* Most parents a commit of that repository has.
MaxParents == 2

\* Number of lines from which a commit message under test is assembled.
MaxMsgLines == 8

\* Number of lines of a message whose line endings are varied.
MaxCRLFLines == 4

\* Number of rules of a rule list under evaluation.
MaxRules == 3

\* Number of rules of a configuration file under load.
MaxConfigRules == 2

\* Number of characters of a message given character by character.
MaxMsgChars == 5

\* ------------------------------------------------------- program constants

\* The all-zero object id.  Commit hashes are modelled as 1..NumCommits.
gitZeroHash == 0

minRefFields == 4

VARIABLES
    \* the loaded configuration
    config,
    \* the repository (read-only during a run)
    parents,      \* commit -> set of parent hashes (commit.ParentHashes)
    refs,         \* ref name -> commit hash, NoCommit when the ref is absent
    message,      \* commit -> commit.Message
    author,       \* commit -> commit.Author
    \* a call of getCommitsInRange / getCommitsUpTo
    oldCommit, newCommit, rangeOut, rpc,
    \* a call of ParseCommitMessage
    msgLines, raw, parseOut, ppc,
    \* the run of the hook
    pc, line, commits, parsed, lookups, result,
    \* the command line of the run: the values of the flags as given, and
    \* what parseArgs returned
    args, baseRef, headRef

repoVars  == <<parents, refs, message, author>>
rangeVars == <<oldCommit, newCommit, rangeOut, rpc>>
parseVars == <<msgLines, raw, parseOut, ppc>>
runVars   == <<pc, line, commits, parsed, lookups, result>>
argVars   == <<args, baseRef, headRef>>
vars      == <<config, repoVars, rangeVars, parseVars, runVars, argVars>>

\* ------------------------------------------------------------- the graph

\* The commit objects of the repository, named by their hashes 1, 2, ...
Commits == DOMAIN parents

\* An object id that names no object of the repository.
UnknownOID == NumCommits + 1

OIDs == Commits \cup {UnknownOID, gitZeroHash}

NoCommit == -1

\* Commits reachable from the set S by parent links in graph p, S included.
RECURSIVE Closure(_, _)
Closure(p, S) ==
    LET T == S \cup UNION {p[c] : c \in S}
    IN IF T = S THEN S ELSE Closure(p, T)

Reach(c) == Closure(parents, {c})

\* Every commit graph on n commits.  A commit's hash is its rank by committer
\* time and a commit is younger than its parents, so the graph is acyclic;
\* any number of roots and of parents.
RECURSIVE Graphs(_)
Graphs(n) ==
    IF n = 0 THEN {<<>>}
    ELSE {Append(g, S) : g \in Graphs(n - 1), S \in SUBSET (1..(n - 1))}

\* ------------------------------------------- the commit iterator (by ctime)

\* Committer time of a commit: commits are numbered by committer time.
ctime(c) == c

HeapItems(heap) == {c \in Commits : heap[c] > 0}

\* The heap's top: the commit with the latest committer time.
HeapTop(heap) ==
    CHOOSE c \in HeapItems(heap) : \A d \in HeapItems(heap) : ctime(d) <= ctime(c)

HeapPush(heap, S) == [d \in Commits |-> heap[d] + (IF d \in S THEN 1 ELSE 0)]

\* object.NewCommitIterCTime(c, nil, nil): a heap holding c, nothing seen.
NewCommitIterCTime(c) ==
    [heap |-> [d \in Commits |-> IF d = c THEN 1 ELSE 0], seen |-> {}]

\* The iterator's Next without the set of seen commits: whatever is popped
\* is returned and all its parents are pushed.
IterNextMutNoSeen(it) ==
    IF HeapItems(it.heap) = {}
    THEN [eof |-> TRUE, commit |-> NoCommit, it |-> it]
    ELSE LET c      == HeapTop(it.heap)
             popped == [it.heap EXCEPT ![c] = @ - 1]
         IN [eof    |-> FALSE,
             commit |-> c,
             it     |-> [heap |-> HeapPush(popped, parents[c]), seen |-> it.seen]]

\* One call of the iterator's Next: pop until an unseen commit comes up, mark
\* it seen, push its unseen parents, return it.  eof when the heap runs dry.
RECURSIVE IterNext(_)
IterNext(it) ==
    IF HeapItems(it.heap) = {}
    THEN [eof |-> TRUE, commit |-> NoCommit, it |-> it]
    ELSE LET c      == HeapTop(it.heap)
             popped == [it.heap EXCEPT ![c] = @ - 1]
         IN IF c \in it.seen
            THEN IterNext([it EXCEPT !.heap = popped])
            ELSE LET seen2 == it.seen \cup {c}
                 IN [eof    |-> FALSE,
                     commit |-> c,
                     it     |-> [heap |-> HeapPush(popped, parents[c] \ seen2),
                                 seen |-> seen2]]

\* iter.ForEach(cb): the commits handed to the callback, in order.
RECURSIVE ForEach(_)
ForEach(it) ==
    LET n == IterNext(it)
    IN IF n.eof THEN <<>> ELSE <<n.commit>> \o ForEach(n.it)

Range(s) == {s[i] : i \in 1..Len(s)}

\* repo.CommitObject(hash) succeeds exactly for the hashes of the repository.
CommitObject(h) == h \in Commits

\* The results of a resolver: the error (empty for nil), the commits, and
\* the calls made on the repository.
Failed(err, calls) == [err |-> err, commits |-> <<>>, calls |-> calls]
Resolved(cs, calls) == [err |-> "", commits |-> cs, calls |-> calls]

\* getCommitsInRange keeping the old end itself in the result.
getCommitsInRangeMutKeepBase(old, new) ==
    IF ~CommitObject(new) THEN Failed("failed to get new commit", <<"CommitObject">>)
    ELSE IF ~CommitObject(old)
         THEN Failed("failed to get old commit", <<"CommitObject", "CommitObject">>)
    ELSE LET oldCommits == Range(ForEach(NewCommitIterCTime(old))) \ {old}
             all        == ForEach(NewCommitIterCTime(new))
         IN Resolved(SelectSeq(all, LAMBDA c : c \notin oldCommits),
                     <<"CommitObject", "CommitObject", "ForEach", "ForEach">>)

\* getCommitsInRange excluding the old end and its parents only.
getCommitsInRangeMutParentsOnly(old, new) ==
    IF ~CommitObject(new) THEN Failed("failed to get new commit", <<"CommitObject">>)
    ELSE IF ~CommitObject(old)
         THEN Failed("failed to get old commit", <<"CommitObject", "CommitObject">>)
    ELSE LET oldCommits == {old} \cup parents[old]
             all        == ForEach(NewCommitIterCTime(new))
         IN Resolved(SelectSeq(all, LAMBDA c : c \notin oldCommits),
                     <<"CommitObject", "CommitObject", "ForEach", "ForEach">>)

\* getCommitsInRange(repo, oldCommit, newCommit)
getCommitsInRange(old, new) ==
    IF ~CommitObject(new) THEN Failed("failed to get new commit", <<"CommitObject">>)
    ELSE IF ~CommitObject(old)
         THEN Failed("failed to get old commit", <<"CommitObject", "CommitObject">>)
    ELSE LET oldCommits == Range(ForEach(NewCommitIterCTime(old)))
             all        == ForEach(NewCommitIterCTime(new))
         IN Resolved(SelectSeq(all, LAMBDA c : c \notin oldCommits),
                     <<"CommitObject", "CommitObject", "ForEach", "ForEach">>)

\* getCommitsUpTo following first parents only.
getCommitsUpToMutFirstParent(h) ==
    IF ~CommitObject(h) THEN Failed("failed to get commit", <<"CommitObject">>)
    ELSE LET RECURSIVE chain(_)
             chain(c) == IF parents[c] = {} THEN <<c>>
                         ELSE <<c>> \o chain(CHOOSE d \in parents[c] :
                                                \A e \in parents[c] : e <= d)
         IN Resolved(chain(h), <<"CommitObject", "ForEach">>)

\* getCommitsUpTo(repo, commitHash)
getCommitsUpTo(h) ==
    IF ~CommitObject(h) THEN Failed("failed to get commit", <<"CommitObject">>)
    ELSE Resolved(ForEach(NewCommitIterCTime(h)), <<"CommitObject", "ForEach">>)

\* ------------------------------------------------------ the message parser

\* A string is a sequence of characters; these are the characters that matter.
LF == "\n"
CR == "\r"
SP == " "

\* unicode.IsSpace on the characters of the model.
IsSpace(ch) == ch \in {SP, LF, CR, "\t"}

\* The line endings left as they are.
ReplaceCRLFMutNone(s) == s

\* strings.ReplaceAll(s, "\r\n", "\n")
RECURSIVE ReplaceCRLF(_)
ReplaceCRLF(s) ==
    IF s = <<>> THEN <<>>
    ELSE IF Len(s) >= 2 /\ s[1] = CR /\ s[2] = LF
         THEN <<LF>> \o ReplaceCRLF(SubSeq(s, 3, Len(s)))
         ELSE <<s[1]>> \o ReplaceCRLF(Tail(s))

\* strings.TrimRight(s, "\n")
RECURSIVE TrimRightLF(_)
TrimRightLF(s) ==
    IF s # <<>> /\ s[Len(s)] = LF THEN TrimRightLF(SubSeq(s, 1, Len(s) - 1)) ELSE s

\* strings.Split(s, "\n"): always at least one element.
RECURSIVE SplitLF(_)
SplitLF(s) ==
    IF \A i \in 1..Len(s) : s[i] # LF THEN <<s>>
    ELSE LET k == CHOOSE i \in 1..Len(s) :
                      s[i] = LF /\ \A j \in 1..(i - 1) : s[j] # LF
         IN <<SubSeq(s, 1, k - 1)>> \o SplitLF(SubSeq(s, k + 1, Len(s)))

\* strings.Join(parts, sep)
RECURSIVE Join(_, _)
Join(parts, sep) ==
    IF parts = <<>> THEN <<>>
    ELSE IF Len(parts) = 1 THEN parts[1]
    ELSE parts[1] \o sep \o Join(Tail(parts), sep)

\* isEmptyLine comparing the line itself with "".
isEmptyLineMutNoTrim(l) == l = <<>>

\* isEmptyLine: strings.TrimSpace(line) == ""
isEmptyLine(l) == \A i \in 1..Len(l) : IsSpace(l[i])

\* The loop of splitIntoSections over the remaining lines, with the sections
\* closed so far and the lines of the section being collected.
RECURSIVE splitLoop(_, _, _)
splitLoop(lines, sections, currentSection) ==
    IF lines = <<>>
    THEN IF Len(currentSection) > 0
         THEN Append(sections, Join(currentSection, <<LF>>))
         ELSE sections
    ELSE IF isEmptyLine(Head(lines))
         THEN IF Len(currentSection) > 0
              THEN splitLoop(Tail(lines),
                             Append(sections, Join(currentSection, <<LF>>)), <<>>)
              ELSE splitLoop(Tail(lines), sections, currentSection)
         ELSE splitLoop(Tail(lines), sections, Append(currentSection, Head(lines)))

splitIntoSections(m) == splitLoop(SplitLF(m), <<>>, <<>>)

\* ParseCommitMessage with the body's sections joined by a single line break.
ParseCommitMessageMutJoinLF(m) ==
    LET norm     == TrimRightLF(ReplaceCRLF(m))
        sections == splitIntoSections(norm)
        n        == Len(sections)
    IN [Raw    |-> norm,
        Title  |-> IF n = 0 THEN <<>> ELSE sections[1],
        Body   |-> IF n <= 2 THEN <<>> ELSE Join(SubSeq(sections, 2, n - 1), <<LF>>),
        Footer |-> IF n <= 1 THEN <<>> ELSE sections[n]]

\* ParseCommitMessage with a second section taken as the body.
ParseCommitMessageMutTwoAsBody(m) ==
    LET norm     == TrimRightLF(ReplaceCRLF(m))
        sections == splitIntoSections(norm)
        n        == Len(sections)
    IN [Raw    |-> norm,
        Title  |-> IF n = 0 THEN <<>> ELSE sections[1],
        Body   |-> IF n <= 1 THEN <<>>
                   ELSE Join(SubSeq(sections, 2, IF n = 2 THEN 2 ELSE n - 1), <<LF, LF>>),
        Footer |-> IF n <= 2 THEN <<>> ELSE sections[n]]

\* ParseCommitMessage taking the last section as footer also when it is the
\* only one.
ParseCommitMessageMutOneAsFooter(m) ==
    LET norm     == TrimRightLF(ReplaceCRLF(m))
        sections == splitIntoSections(norm)
        n        == Len(sections)
    IN [Raw    |-> norm,
        Title  |-> IF n = 0 THEN <<>> ELSE sections[1],
        Body   |-> IF n <= 2 THEN <<>> ELSE Join(SubSeq(sections, 2, n - 1), <<LF, LF>>),
        Footer |-> IF n = 0 THEN <<>> ELSE sections[n]]

ParseCommitMessage(m) ==
    LET norm     == TrimRightLF(ReplaceCRLF(m))
        sections == splitIntoSections(norm)
        n        == Len(sections)
    IN IF n = 0
       THEN [Raw |-> norm, Title |-> <<>>, Body |-> <<>>, Footer |-> <<>>]
       ELSE IF n = 1
       THEN [Raw |-> norm, Title |-> sections[1], Body |-> <<>>, Footer |-> <<>>]
       ELSE IF n = 2
       THEN [Raw |-> norm, Title |-> sections[1], Body |-> <<>>,
             Footer |-> sections[2]]
       ELSE [Raw |-> norm, Title |-> sections[1],
             Body   |-> Join(SubSeq(sections, 2, n - 1), <<LF, LF>>),
             Footer |-> sections[n]]

\* --------------------------------------------------------- the rule engine

\* regexp.Compile on the patterns of the model: a pattern is literal text,
\* optionally anchored by a leading "^"; an opening parenthesis (which the
\* model never closes) does not compile.
RegexpCompiles(p) == \A i \in 1..Len(p) : p[i] # "("

IsPrefix(lit, text) ==
    Len(lit) <= Len(text) /\ SubSeq(text, 1, Len(lit)) = lit

\* regex.MatchString(text): an unanchored pattern matches anywhere.
MatchString(p, text) ==
    IF p # <<>> /\ p[1] = "^"
    THEN IsPrefix(Tail(p), text)
    ELSE \E i \in 0..Len(text) :
            i + Len(p) <= Len(text) /\ SubSeq(text, i + 1, i + Len(p)) = p

\* getTextForScope reading the whole message for the title scope.
getTextForScopeMutTitleRaw(scope, m) ==
    CASE scope = "title"   -> m.Raw
      [] scope = "body"    -> m.Body
      [] scope = "footer"  -> m.Footer
      [] scope = "message" -> m.Raw
      [] OTHER             -> <<>>

getTextForScope(scope, m) ==
    CASE scope = "title"   -> m.Title
      [] scope = "body"    -> m.Body
      [] scope = "footer"  -> m.Footer
      [] scope = "message" -> m.Raw
      [] OTHER             -> <<>>

\* EvaluateRules putting each new violation in front of the earlier ones.
RECURSIVE EvaluateRulesMutPrepend(_, _)
EvaluateRulesMutPrepend(rules, m) ==
    IF rules = <<>> THEN <<>>
    ELSE LET rule     == Head(rules)
             matched  == MatchString(rule.Pattern, getTextForScope(rule.Scope, m))
             violated == \/ (rule.Type = "deny" /\ matched)
                         \/ (rule.Type = "require" /\ ~matched)
         IN EvaluateRulesMutPrepend(Tail(rules), m)
            \o (IF violated THEN <<[Rule |-> rule, Matched |-> matched]>> ELSE <<>>)

\* EvaluateRules(rules, message): the violations, in rule order.
RECURSIVE EvaluateRules(_, _)
EvaluateRules(rules, m) ==
    IF rules = <<>> THEN <<>>
    ELSE LET rule     == Head(rules)
             matched  == MatchString(rule.Pattern, getTextForScope(rule.Scope, m))
             violated == \/ (rule.Type = "deny" /\ matched)
                         \/ (rule.Type = "require" /\ ~matched)
         IN (IF violated THEN <<[Rule |-> rule, Matched |-> matched]>> ELSE <<>>)
            \o EvaluateRules(Tail(rules), m)

\* shouldSkipAuthor matching the patterns against the name only.
RECURSIVE shouldSkipAuthorMutNameOnly(_, _, _)
shouldSkipAuthorMutNameOnly(name, email, patterns) ==
    IF patterns = <<>> THEN FALSE
    ELSE IF ~RegexpCompiles(Head(patterns))
         THEN shouldSkipAuthorMutNameOnly(name, email, Tail(patterns))
    ELSE IF MatchString(Head(patterns), name)
         THEN TRUE
    ELSE shouldSkipAuthorMutNameOnly(name, email, Tail(patterns))

\* shouldSkipAuthor(name, email, patterns)
RECURSIVE shouldSkipAuthor(_, _, _)
shouldSkipAuthor(name, email, patterns) ==
    IF patterns = <<>> THEN FALSE
    ELSE IF ~RegexpCompiles(Head(patterns))
         THEN shouldSkipAuthor(name, email, Tail(patterns))
    ELSE IF MatchString(Head(patterns), name) \/ MatchString(Head(patterns), email)
         THEN TRUE
    ELSE shouldSkipAuthor(name, email, Tail(patterns))

\* ------------------------------------------------------- the configuration

\* The loop of validateConfig without the compilation of the pattern.
RECURSIVE validateRulesMutNoCompile(_, _)
validateRulesMutNoCompile(rules, i) ==
    IF i > Len(rules) THEN ""
    ELSE LET rule == rules[i]
         IN IF rule.Name = "" THEN "name is required"
            ELSE IF rule.Type # "deny" /\ rule.Type # "require"
            THEN "type must be 'deny' or 'require'"
            ELSE IF rule.Scope # "title" /\ rule.Scope # "body"
                    /\ rule.Scope # "footer" /\ rule.Scope # "message"
            THEN "scope must be 'title', 'body', 'footer', or 'message'"
            ELSE IF rule.Pattern = <<>> THEN "pattern is required"
            ELSE validateRulesMutNoCompile(rules, i + 1)

\* The loop of validateConfig over the rules from rule i on: the error of
\* the first rule that fails a check, "" when none does.
RECURSIVE validateRules(_, _)
validateRules(rules, i) ==
    IF i > Len(rules) THEN ""
    ELSE LET rule == rules[i]
         IN IF rule.Name = "" THEN "name is required"
            ELSE IF rule.Type # "deny" /\ rule.Type # "require"
            THEN "type must be 'deny' or 'require'"
            ELSE IF rule.Scope # "title" /\ rule.Scope # "body"
                    /\ rule.Scope # "footer" /\ rule.Scope # "message"
            THEN "scope must be 'title', 'body', 'footer', or 'message'"
            ELSE IF rule.Pattern = <<>> THEN "pattern is required"
            ELSE IF ~RegexpCompiles(rule.Pattern) THEN "invalid regex pattern"
            ELSE validateRules(rules, i + 1)

\* The loop of validateConfig over the skip_authors patterns.
validateSkipAuthors(patterns) ==
    IF \E i \in 1..Len(patterns) : ~RegexpCompiles(patterns[i])
    THEN "skip_authors: invalid regex pattern"
    ELSE ""

\* validateConfig without the check of the skip_authors patterns.
validateConfigMutNoSkipAuthors(cfg) ==
    IF Len(cfg.Rules) = 0 THEN "no rules defined in config"
    ELSE validateRules(cfg.Rules, 1)

\* validateConfig(config): the error, "" for nil.
validateConfig(cfg) ==
    IF Len(cfg.Rules) = 0 THEN "no rules defined in config"
    ELSE IF validateRules(cfg.Rules, 1) # "" THEN validateRules(cfg.Rules, 1)
    ELSE validateSkipAuthors(cfg.Settings.SkipAuthors)

\* LoadConfig(".") on a configuration file that holds cfg: the error, ""
\* for nil.
LoadConfig(cfg) ==
    IF validateConfig(cfg) # "" THEN "invalid config" ELSE ""

\* ------------------------------------------------------------- the hook run

defaultMainRef == "main"

NoResult == [kind |-> "none", commit |-> NoCommit, ref |-> "", violations |-> <<>>]

\* A returned error, and nil.
Error(kind) == [kind |-> kind, commit |-> NoCommit, ref |-> "", violations |-> <<>>]
Nil == Error("ok")

\* formatViolationError(commit, ref, violations, failFast): the error names
\* the commit, the ref and the violated rules.
formatViolationError(c, ref, violations, failFast) ==
    [kind |-> "validation", commit |-> c, ref |-> ref, violations |-> violations]

\* The loop of validateCommits over the remaining commits; done holds the
\* commits parsed and evaluated so far.
RECURSIVE validateLoop(_, _, _, _)
validateLoop(cfg, cs, refName, done) ==
    IF cs = <<>> THEN [err |-> Nil, parsed |-> done]
    ELSE LET c == Head(cs)
         IN IF cfg.Settings.SkipMergeCommits /\ Cardinality(parents[c]) > 1
            THEN validateLoop(cfg, Tail(cs), refName, done)
            ELSE IF shouldSkipAuthor(author[c].Name, author[c].Email,
                                     cfg.Settings.SkipAuthors)
            THEN validateLoop(cfg, Tail(cs), refName, done)
            ELSE LET violations ==
                         EvaluateRules(cfg.Rules, ParseCommitMessage(message[c]))
                 IN IF Len(violations) > 0
                    THEN [err    |-> formatViolationError(c, refName, violations,
                                                          cfg.Settings.FailFast),
                          parsed |-> Append(done, c)]
                    ELSE validateLoop(cfg, Tail(cs), refName, Append(done, c))

\* The loop of validateCommits leaving the loop at a skipped commit instead
\* of going on with the next one.
RECURSIVE validateLoopMutSkipEnds(_, _, _, _)
validateLoopMutSkipEnds(cfg, cs, refName, done) ==
    IF cs = <<>> THEN [err |-> Nil, parsed |-> done]
    ELSE LET c == Head(cs)
         IN IF cfg.Settings.SkipMergeCommits /\ Cardinality(parents[c]) > 1
            THEN [err |-> Nil, parsed |-> done]
            ELSE IF shouldSkipAuthor(author[c].Name, author[c].Email,
                                     cfg.Settings.SkipAuthors)
            THEN [err |-> Nil, parsed |-> done]
            ELSE LET violations ==
                         EvaluateRules(cfg.Rules, ParseCommitMessage(message[c]))
                 IN IF Len(violations) > 0
                    THEN [err    |-> formatViolationError(c, refName, violations,
                                                          cfg.Settings.FailFast),
                          parsed |-> Append(done, c)]
                    ELSE validateLoopMutSkipEnds(cfg, Tail(cs), refName, Append(done, c))

\* validateCommits checking the tip of the range only.
validateCommitsMutTipOnly(cfg, cs, refName) ==
    validateLoop(cfg, IF cs = <<>> THEN cs ELSE <<Head(cs)>>, refName, <<>>)

\* validateCommits reporting the last violating commit instead of the first.
validateCommitsMutLast(cfg, cs, refName) ==
    LET all == [i \in 1..Len(cs) |-> validateLoop(cfg, <<cs[i]>>, refName, <<>>)]
        bad == {i \in 1..Len(cs) : all[i].err # Nil}
    IN IF bad = {} THEN validateLoop(cfg, cs, refName, <<>>)
       ELSE LET k == CHOOSE i \in bad : \A j \in bad : j <= i
            IN [err |-> all[k].err, parsed |-> validateLoop(cfg, cs, refName, <<>>).parsed]

\* validateCommits ending the loop at the first skipped commit.
validateCommitsMutSkipEnds(cfg, cs, refName) ==
    validateLoopMutSkipEnds(cfg, cs, refName, <<>>)

validateCommits(cfg, cs, refName) == validateLoop(cfg, cs, refName, <<>>)

\* Hash.String(): the object id written out.
HashString(h) == ToString(h)

\* plumbing.NewHash(s): the object id a string spells; a string that spells
\* none gives the zero hash.
NewHash(s) ==
    IF \E h \in 1..UnknownOID : HashString(h) = s
    THEN CHOOSE h \in 1..UnknownOID : HashString(h) = s
    ELSE gitZeroHash

\* resolveRefOrSHA trying the ref name only.
resolveRefOrSHAMutNameOnly(refOrSHA) ==
    IF refOrSHA \in DOMAIN refs /\ refs[refOrSHA] # NoCommit
       /\ CommitObject(refs[refOrSHA])
    THEN [err |-> "", commit |-> refs[refOrSHA]]
    ELSE [err |-> "resolve", commit |-> NoCommit]

\* resolveRefOrSHA(repo, refOrSHA): repo.ResolveRevision finds the ref of
\* that name and repo.CommitObject its commit; failing that, the string is
\* taken as an object id and looked up with repo.CommitObject.
resolveRefOrSHA(refOrSHA) ==
    IF refOrSHA \in DOMAIN refs /\ refs[refOrSHA] # NoCommit
       /\ CommitObject(refs[refOrSHA])
    THEN [err |-> "", commit |-> refs[refOrSHA]]
    ELSE IF CommitObject(NewHash(refOrSHA))
         THEN [err |-> "", commit |-> NewHash(refOrSHA)]
         ELSE [err |-> "resolve", commit |-> NoCommit]

\* parseArgs with "main" for a base that is not given.
parseArgsMutBaseMain(cfg, a) ==
    IF a.parse # "ok"
    THEN [err |-> "failed to parse arguments", baseRef |-> "", headRef |-> ""]
    ELSE IF a.base = "" /\ a.head = ""
    THEN [err |-> "", baseRef |-> "", headRef |-> ""]
    ELSE LET base == IF a.base = "" /\ a.head # "" THEN "main" ELSE a.base
         IN IF base # "" /\ a.head = ""
            THEN [err |-> "--head-ref is required when using --base-ref",
                  baseRef |-> "", headRef |-> ""]
            ELSE [err |-> "", baseRef |-> base, headRef |-> a.head]

\* parseArgs returning a base without a head.
parseArgsMutNoHeadCheck(cfg, a) ==
    IF a.parse # "ok"
    THEN [err |-> "failed to parse arguments", baseRef |-> "", headRef |-> ""]
    ELSE IF a.base = "" /\ a.head = ""
    THEN [err |-> "", baseRef |-> "", headRef |-> ""]
    ELSE LET base == IF a.base = "" /\ a.head # ""
                     THEN cfg.Settings.MainRef ELSE a.base
         IN [err |-> "", baseRef |-> base, headRef |-> a.head]

\* parseArgs(config, args), a being the outcome of fs.Parse and the values
\* of --base-ref and --head-ref: no flag means stdin mode, a head alone
\* takes the configured main ref as base, a base alone is an error.
parseArgs(cfg, a) ==
    IF a.parse # "ok"
    THEN [err |-> "failed to parse arguments", baseRef |-> "", headRef |-> ""]
    ELSE IF a.base = "" /\ a.head = ""
    THEN [err |-> "", baseRef |-> "", headRef |-> ""]
    ELSE LET base == IF a.base = "" /\ a.head # ""
                     THEN cfg.Settings.MainRef ELSE a.base
         IN IF base # "" /\ a.head = ""
            THEN [err |-> "--head-ref is required when using --base-ref",
                  baseRef |-> "", headRef |-> ""]
            ELSE [err |-> "", baseRef |-> base, headRef |-> a.head]

\* The error of resolveRefOrSHA as runArgsMode returns it: it names the
\* identifier, and carries a hint when the identifier is the main ref.
resolveError(cfg, refOrSHA, isBase) ==
    [Error(IF isBase /\ refOrSHA = cfg.Settings.MainRef
           THEN "failed to resolve as ref or SHA (hint: use --base-ref)"
           ELSE "failed to resolve as ref or SHA")
        EXCEPT !.ref = refOrSHA]

\* runArgsMode(config, repo, baseRef, headRef): both ends are resolved,
\* the range between their hashes is taken and validated under the name
\* base..head.
runArgsMode(cfg, base, head) ==
    LET baseCommit == resolveRefOrSHA(base)
        headCommit == resolveRefOrSHA(head)
    IN IF baseCommit.err # ""
       THEN [err |-> resolveError(cfg, base, TRUE), commits |-> <<>>,
             parsed |-> <<>>, calls |-> <<"ResolveRevision">>]
       ELSE IF headCommit.err # ""
       THEN [err |-> resolveError(cfg, head, FALSE), commits |-> <<>>,
             parsed |-> <<>>, calls |-> <<"ResolveRevision", "ResolveRevision">>]
       ELSE LET got == getCommitsInRange(NewHash(HashString(baseCommit.commit)),
                                         NewHash(HashString(headCommit.commit)))
                calls == <<"ResolveRevision", "ResolveRevision">> \o got.calls
            IN IF got.err # ""
               THEN [err |-> Error("failed to get commits"), commits |-> <<>>,
                     parsed |-> <<>>, calls |-> calls]
               ELSE LET v == validateCommits(cfg, got.commits, base \o ".." \o head)
                    IN [err |-> v.err, commits |-> got.commits,
                        parsed |-> v.parsed, calls |-> calls]

\* The fields of the lines the hook may be given (strings.Fields of the
\* trimmed line): blank, too few fields, and localRef localOID remoteRef
\* remoteOID with every combination of object ids.
ShortLines ==
    {<<"refs/heads/topic">>,
     <<"refs/heads/topic", 1, "refs/heads/topic">>,
     <<"refs/heads/topic", gitZeroHash, "refs/heads/topic">>}

Lines ==
    {<<>>} \cup ShortLines
    \cup {<<"refs/heads/topic", l, "refs/heads/topic", r>> : l \in OIDs, r \in OIDs}

\* --------------------------------------------- SpecRange: resolver calls

NoConfig == [Rules |-> <<>>,
             Settings |-> [FailFast |-> FALSE, SkipMergeCommits |-> FALSE,
                           SkipAuthors |-> <<>>, MainRef |-> ""]]

NoRange == Resolved(<<>>, <<>>)

IdleRange == oldCommit = gitZeroHash /\ newCommit = gitZeroHash
             /\ rangeOut = NoRange /\ rpc = "idle"
IdleParse == msgLines = <<>> /\ raw = <<>> /\ ppc = "idle"
             /\ parseOut = [Raw |-> <<>>, Title |-> <<>>, Body |-> <<>>, Footer |-> <<>>]
\* No command-line flags: the hook is run by git with the refs on stdin.
NoArgs == [parse |-> "ok", base |-> "", head |-> ""]

IdleArgs  == args = NoArgs /\ baseRef = "" /\ headRef = ""
IdleRun   == pc = "idle" /\ line = <<>> /\ commits = <<>> /\ parsed = <<>>
             /\ lookups = <<>> /\ result = NoResult

InitRange ==
    /\ IdleArgs
    /\ config = NoConfig
    /\ parents \in Graphs(NumCommits)
    /\ refs = [r \in {"main"} |-> NoCommit]
    /\ message = [c \in Commits |-> <<>>]
    /\ author = [c \in Commits |-> "human"]
    /\ oldCommit \in 1..(NumCommits + 1)
    /\ newCommit \in 1..(NumCommits + 1)
    /\ rangeOut = NoRange
    /\ rpc = "call"
    /\ IdleParse
    /\ IdleRun

CallGetCommitsInRange ==
    /\ rpc = "call"
    /\ rangeOut' = getCommitsInRange(oldCommit, newCommit)
    /\ rpc' = "range"
    /\ UNCHANGED <<config, argVars, repoVars, oldCommit, newCommit, parseVars, runVars>>

CallGetCommitsUpTo ==
    /\ rpc = "call"
    /\ rangeOut' = getCommitsUpTo(newCommit)
    /\ rpc' = "upto"
    /\ UNCHANGED <<config, argVars, repoVars, oldCommit, newCommit, parseVars, runVars>>

NextRange == CallGetCommitsInRange \/ CallGetCommitsUpTo

SpecRange == InitRange /\ [][NextRange]_vars

\* A sequence without repeated elements.
NoDup(s) == \A i, j \in 1..Len(s) : i # j => s[i] # s[j]

\* C1: the list returned by getCommitsInRange holds neither base nor any
\* commit reachable from base by parent links, also for diverged histories;
\* for base = head it is empty.
C1_RangeExcludesBaseAncestry ==
    (rpc = "range" /\ rangeOut.err = "") =>
        /\ Range(rangeOut.commits) \cap Reach(oldCommit) = {}
        /\ (oldCommit = newCommit => rangeOut.commits = <<>>)

\* Diverged endpoints that share an ancestor neither of them is, with a
\* non-empty result.
C1_Witness ==
    /\ rpc = "range" /\ rangeOut.err = "" /\ rangeOut.commits # <<>>
    /\ oldCommit \notin Reach(newCommit) /\ newCommit \notin Reach(oldCommit)
    /\ Reach(oldCommit) \cap Reach(newCommit) # {}

\* C2: for resolvable endpoints, related or not, getCommitsInRange returns
\* without error exactly the commits reachable from head and not from base,
\* each exactly once.
C2_RangeIsExactDifference ==
    (rpc = "range" /\ CommitObject(oldCommit) /\ CommitObject(newCommit)) =>
        /\ rangeOut.err = ""
        /\ Range(rangeOut.commits) = Reach(newCommit) \ Reach(oldCommit)
        /\ NoDup(rangeOut.commits)

\* Diverged endpoints, and a returned commit that two parent paths from head
\* lead to.
C2_Witness ==
    /\ rpc = "range" /\ rangeOut.err = ""
    /\ oldCommit \notin Reach(newCommit) /\ newCommit \notin Reach(oldCommit)
    /\ \E c \in Range(rangeOut.commits) :
          Cardinality({d \in Reach(newCommit) : c \in parents[d]}) >= 2

\* C3: getCommitsUpTo returns head and every commit reachable from head,
\* each exactly once, also when merge paths converge on an ancestor.
C3_UpToIsFullAncestry ==
    (rpc = "upto" /\ CommitObject(newCommit)) =>
        /\ rangeOut.err = ""
        /\ Range(rangeOut.commits) = Reach(newCommit)
        /\ NoDup(rangeOut.commits)

\* An ancestor that two different descendants of head both name as parent.
C3_Witness ==
    /\ rpc = "upto" /\ rangeOut.err = ""
    /\ \E c \in Range(rangeOut.commits) :
          Cardinality({d \in Reach(newCommit) : c \in parents[d]}) >= 2

\* The commits a walk from c hands to its callback, in order.
Walk(c) == ForEach(NewCommitIterCTime(c))

\* The walk ends after as many commits as are reachable, each met once.
VisitsEachOnce(c) ==
    /\ Len(Walk(c)) = Cardinality(Reach(c))
    /\ NoDup(Walk(c))
    /\ Range(Walk(c)) = Reach(c)

\* Two paths from c meet in a commit.
Converging(c) ==
    \E a \in Reach(c) :
        Cardinality({d \in Reach(c) : a \in parents[d]}) >= 2

\* C26: on every commit graph the walk from base and the walk from head of
\* getCommitsInRange, and the walk of getCommitsUpTo, end, each after having
\* met every reachable commit exactly once, also where the parent paths of
\* merge commits converge.
C26_WalksEndVisitingOnce ==
    /\ (rpc = "range" /\ rangeOut.err = "") =>
          VisitsEachOnce(oldCommit) /\ VisitsEachOnce(newCommit)
    /\ (rpc = "upto" /\ rangeOut.err = "") =>
          /\ VisitsEachOnce(newCommit)
          /\ rangeOut.commits = Walk(newCommit)

\* A range was resolved whose base and head each have converging paths in
\* their ancestry.
C26_Witness ==
    /\ rpc = "range" /\ rangeOut.err = ""
    /\ Converging(oldCommit) /\ Converging(newCommit)
    /\ oldCommit # newCommit

\* ------------------------------------- SpecParse: ParseCommitMessage calls

\* What a line of a message under test may hold.
LineContents == {<<>>, <<SP>>, <<"a">>, <<"b">>}

NoParse == [Raw |-> <<>>, Title |-> <<>>, Body |-> <<>>, Footer |-> <<>>]

InitParse ==
    /\ IdleArgs
    /\ config = NoConfig
    /\ parents = <<>> /\ refs = [r \in {"main"} |-> NoCommit]
    /\ message = <<>> /\ author = <<>>
    /\ IdleRange
    /\ IdleRun
    /\ \E n \in 0..MaxMsgLines : msgLines \in [1..n -> LineContents]
    /\ raw = Join(msgLines, <<LF>>)
    /\ parseOut = NoParse
    /\ ppc = "call"

CallParseCommitMessage ==
    /\ ppc = "call"
    /\ parseOut' = ParseCommitMessage(raw)
    /\ ppc' = "parsed"
    /\ UNCHANGED <<config, argVars, repoVars, rangeVars, msgLines, raw, runVars>>

NextParse == CallParseCommitMessage

SpecParse == InitParse /\ [][NextParse]_vars

\* The blank-line-delimited sections of the message, read off the lines it
\* was assembled from: a section is a maximal run of lines that are neither
\* empty nor made of spaces only.
BlankLine(i) == \A k \in 1..Len(msgLines[i]) : msgLines[i][k] = SP

SectionStarts ==
    {i \in 1..Len(msgLines) : ~BlankLine(i) /\ (i = 1 \/ BlankLine(i - 1))}

SectionEnd(i) ==
    CHOOSE j \in i..Len(msgLines) :
        /\ \A k \in i..j : ~BlankLine(k)
        /\ (j = Len(msgLines) \/ BlankLine(j + 1))

NumSections == Cardinality(SectionStarts)

\* The text of the k-th section.
Section(k) ==
    LET i == CHOOSE x \in SectionStarts :
                 Cardinality({y \in SectionStarts : y < x}) = k - 1
    IN Join(SubSeq(msgLines, i, SectionEnd(i)), <<LF>>)

\* Sections from..to with one blank line between neighbours.
RECURSIVE BlankLineJoined(_, _)
BlankLineJoined(from, to) ==
    IF from > to THEN <<>>
    ELSE IF from = to THEN Section(from)
    ELSE Section(from) \o <<LF, LF>> \o BlankLineJoined(from + 1, to)

\* Two neighbouring blank lines lie between two sections.
DoubleBlankInside ==
    \E i \in 1..(Len(msgLines) - 1) :
        /\ BlankLine(i) /\ BlankLine(i + 1)
        /\ \E s \in SectionStarts : s < i
        /\ \E s \in SectionStarts : s > i + 1

\* C9: with three or more sections Title is the first section, Footer the
\* last, and Body the sections strictly between them joined by exactly one
\* blank line, however many blank or space-only lines separated them.
C9_ThreeOrMoreSections ==
    (ppc = "parsed" /\ NumSections >= 3) =>
        /\ parseOut.Title = Section(1)
        /\ parseOut.Footer = Section(NumSections)
        /\ parseOut.Body = BlankLineJoined(2, NumSections - 1)

\* Four sections (a body of two) with a run of blank lines inside the message.
C9_Witness ==
    /\ ppc = "parsed" /\ NumSections >= 4 /\ DoubleBlankInside
    /\ parseOut.Body # <<>>

\* C10: with exactly two sections Title is the first, Footer the second and
\* Body is empty, however many blank lines separate the two.
C10_TwoSections ==
    (ppc = "parsed" /\ NumSections = 2) =>
        /\ parseOut.Title = Section(1)
        /\ parseOut.Footer = Section(2)
        /\ parseOut.Body = <<>>

\* Two sections with several blank lines between them.
C10_Witness ==
    /\ ppc = "parsed" /\ NumSections = 2 /\ DoubleBlankInside
    /\ parseOut.Footer # <<>>

\* C11: with fewer than two sections Body and Footer are empty; Title is the
\* single section when there is one, and empty too when there is none (the
\* empty message, or blank lines only).
C11_FewerThanTwoSections ==
    (ppc = "parsed" /\ NumSections < 2) =>
        /\ parseOut.Body = <<>>
        /\ parseOut.Footer = <<>>
        /\ parseOut.Title = IF NumSections = 1 THEN Section(1) ELSE <<>>

\* A single section of two lines, after a blank line and before another.
C11_Witness ==
    /\ ppc = "parsed" /\ NumSections = 1
    /\ \E i \in SectionStarts : i > 1 /\ SectionEnd(i) > i /\ SectionEnd(i) < Len(msgLines)
    /\ parseOut.Title # <<>>

\* A character of the text is no white space.
HasText(s) == \E i \in 1..Len(s) : ~IsSpace(s[i])

\* C13 as stated: Title is non-empty if and only if Raw, the normalized
\* message, is non-empty.
C13_TitleIffRawNonEmpty ==
    ppc = "parsed" => ((parseOut.Title # <<>>) <=> (parseOut.Raw # <<>>))

\* C13 amended: Title is non-empty if and only if Raw holds a character
\* that is no white space, that is, the message has a section; an empty
\* Raw has an empty Title, and a Raw of white space only has one too.
C13_TitleIffRawHasText ==
    ppc = "parsed" =>
        /\ (parseOut.Title # <<>>) <=> HasText(parseOut.Raw)
        /\ (parseOut.Title # <<>>) <=> (NumSections > 0)
        /\ parseOut.Raw = <<>> => parseOut.Title = <<>>

\* A message of white space only: Raw is not empty and Title is.
C13_Witness ==
    /\ ppc = "parsed"
    /\ parseOut.Raw # <<>> /\ ~HasText(parseOut.Raw)
    /\ parseOut.Title = <<>>

\* C14 as stated, for a message whose first line holds text: Title is the
\* first line of the message and never spans more than one line.
C14_TitleIsFirstLine ==
    (ppc = "parsed" /\ msgLines # <<>> /\ ~BlankLine(1)) =>
        /\ parseOut.Title = msgLines[1]
        /\ \A i \in 1..Len(parseOut.Title) : parseOut.Title[i] # LF

\* ------------------------------- SpecCRLF: messages with CRLF line endings

\* What a line of a message under test may hold: no line feed, and no
\* carriage return at its end.
CRLFLineContents == {<<>>, <<SP>>, <<"a">>, <<CR, "a">>}

\* The lines joined, line i ending in CRLF for i in crlf and in LF otherwise.
RECURSIVE JoinEndings(_, _, _)
JoinEndings(lines, crlf, i) ==
    IF i > Len(lines) THEN <<>>
    ELSE IF i = Len(lines) THEN lines[i]
    ELSE lines[i] \o (IF i \in crlf THEN <<CR, LF>> ELSE <<LF>>)
                  \o JoinEndings(lines, crlf, i + 1)

InitCRLF ==
    /\ IdleArgs
    /\ config = NoConfig
    /\ parents = <<>> /\ refs = [r \in {"main"} |-> NoCommit]
    /\ message = <<>> /\ author = <<>>
    /\ IdleRange
    /\ IdleRun
    /\ \E n \in 0..MaxCRLFLines : msgLines \in [1..n -> CRLFLineContents]
    /\ \E crlf \in SUBSET (1..(Len(msgLines) - 1)) :
           raw = JoinEndings(msgLines, crlf, 1)
    /\ parseOut = NoParse
    /\ ppc = "call"

NextCRLF == CallParseCommitMessage

SpecCRLF == InitCRLF /\ [][NextCRLF]_vars

\* C12: turning any of the LF line endings of a message into CRLF leaves
\* Raw, Title, Body and Footer as they are for the message with LF only.
C12_CRLFAsLF ==
    ppc = "parsed" => parseOut = ParseCommitMessage(Join(msgLines, <<LF>>))

\* A message of LF and CRLF endings, with a footer.
C12_Witness ==
    /\ ppc = "parsed"
    /\ \E i \in 2..Len(raw) : raw[i] = LF /\ raw[i - 1] = CR
    /\ \E i \in 2..Len(raw) : raw[i] = LF /\ raw[i - 1] # CR
    /\ parseOut.Footer # <<>>
    /\ parseOut.Raw # raw

\* ----------------------------------------- SpecRules: EvaluateRules calls

\* The names of the rules of a list, by position.
RuleNames == <<"r1", "r2", "r3", "r4">>

RuleTypes == {"deny", "require"}

Scopes == {"title", "body", "footer", "message"}

\* The rule lists under evaluation: every type and scope at every position.
RuleLists ==
    UNION {{[i \in 1..n |-> [Name    |-> RuleNames[i],
                              Type    |-> ts[i][1],
                              Scope   |-> ts[i][2],
                              Pattern |-> <<"w">>,
                              Message |-> ""]] :
               ts \in [1..n -> RuleTypes \X Scopes]} : n \in 0..MaxRules}

\* What a field of a parsed message may hold.
FieldTexts == {<<>>, <<"w">>, <<"o">>}

ParsedMessages == [Raw : FieldTexts, Title : FieldTexts,
                   Body : FieldTexts, Footer : FieldTexts]

InitRules ==
    /\ IdleArgs
    /\ config \in {[NoConfig EXCEPT !.Rules = rs] : rs \in RuleLists}
    /\ parents = <<>> /\ refs = [r \in {"main"} |-> NoCommit]
    /\ message = <<>> /\ author = <<>>
    /\ IdleRange
    /\ msgLines = <<>> /\ raw = <<>> /\ ppc = "idle"
    /\ parseOut \in ParsedMessages
    /\ pc = "rules"
    /\ line = <<>> /\ commits = <<>> /\ parsed = <<>> /\ lookups = <<>>
    /\ result = NoResult

\* violations := EvaluateRules(config.Rules, parsed)
CallEvaluateRules ==
    /\ pc = "rules"
    /\ result' = [NoResult EXCEPT !.kind = "evaluated",
                                  !.violations = EvaluateRules(config.Rules, parseOut)]
    /\ pc' = "evaluated"
    /\ UNCHANGED <<config, argVars, repoVars, rangeVars, parseVars,
                   line, commits, parsed, lookups>>

NextRules == CallEvaluateRules

SpecRules == InitRules /\ [][NextRules]_vars

\* The text of the message a scope stands for.
ScopeText(scope, m) ==
    IF scope = "title" THEN m.Title
    ELSE IF scope = "body" THEN m.Body
    ELSE IF scope = "footer" THEN m.Footer
    ELSE m.Raw

\* The pattern of the rule is found in the text of its scope.
Found(r, m) == MatchString(r.Pattern, ScopeText(r.Scope, m))

\* The violations reported for a rule.
ViolationsOf(r) ==
    {i \in 1..Len(result.violations) : result.violations[i].Rule = r}

\* The message with the fields the scope does not stand for set to t.
OtherFieldsSet(scope, m, t) ==
    [Raw    |-> IF scope = "message" THEN m.Raw ELSE t,
     Title  |-> IF scope = "title" THEN m.Title ELSE t,
     Body   |-> IF scope = "body" THEN m.Body ELSE t,
     Footer |-> IF scope = "footer" THEN m.Footer ELSE t]

\* C15: a deny rule is violated exactly when its pattern matches the text of
\* its scope (title: Title, body: Body, footer: Footer, message: Raw), with
\* Matched true; a require rule exactly when it does not, with Matched
\* false; the other fields of the message have no influence.
C15_DenyAndRequire ==
    pc = "evaluated" =>
        \A k \in 1..Len(config.Rules) :
            LET r == config.Rules[k]
            IN /\ r.Type = "deny" =>
                    /\ (ViolationsOf(r) # {}) <=> Found(r, parseOut)
                    /\ \A i \in ViolationsOf(r) : result.violations[i].Matched
               /\ r.Type = "require" =>
                    /\ (ViolationsOf(r) # {}) <=> ~Found(r, parseOut)
                    /\ \A i \in ViolationsOf(r) : ~result.violations[i].Matched
               /\ \A t \in FieldTexts :
                    (EvaluateRules(<<r>>, OtherFieldsSet(r.Scope, parseOut, t)) # <<>>)
                        <=> (ViolationsOf(r) # {})

\* A deny rule found violated and a require rule found violated on a
\* message whose four fields are not all the same.
C15_Witness ==
    /\ pc = "evaluated"
    /\ \E i, j \in 1..Len(result.violations) :
          /\ result.violations[i].Rule.Type = "deny"
          /\ result.violations[i].Matched
          /\ result.violations[i].Rule.Scope = "title"
          /\ result.violations[j].Rule.Type = "require"
          /\ ~result.violations[j].Matched
    /\ parseOut.Title # parseOut.Raw
    /\ \E k \in 1..Len(config.Rules) : ViolationsOf(config.Rules[k]) = {}

\* The rule is violated by the message.
RuleViolated(r) ==
    \/ (r.Type = "deny" /\ Found(r, parseOut))
    \/ (r.Type = "require" /\ ~Found(r, parseOut))

\* C16: the violations are the violated rules in declaration order, one
\* for each violated position of the rule list and none for the others.
C16_ViolationsInRuleOrder ==
    pc = "evaluated" =>
        /\ [i \in 1..Len(result.violations) |-> result.violations[i].Rule]
             = SelectSeq(config.Rules, RuleViolated)
        /\ Len(result.violations) <= Len(config.Rules)

\* Of three rules the first and the third are violated, the second not.
C16_Witness ==
    /\ pc = "evaluated"
    /\ Len(config.Rules) = 3 /\ Len(result.violations) = 2
    /\ result.violations[1].Rule = config.Rules[1]
    /\ result.violations[2].Rule = config.Rules[3]

\* ------------------------------------------------- Spec: a run of the hook

\* The rule of the repository's default configuration, on short texts: a
\* title holding "w" is refused.
PreventWip ==
    [Name |-> "prevent-wip", Type |-> "deny", Scope |-> "title",
     Pattern |-> <<"w">>, Message |-> "WIP commits are not allowed"]

\* The configurations the file .commit-msg-lint.yml may hold: skip_authors
\* with a pattern that compiles, or with one before it that does not.
RunConfigs ==
    {[Rules |-> <<PreventWip>>,
      Settings |-> [FailFast |-> FALSE, SkipMergeCommits |-> smc,
                    SkipAuthors |-> sa, MainRef |-> mr]] :
        smc \in BOOLEAN, mr \in {"", "main"},
        sa \in {<< <<"b">> >>, << <<"(">>, <<"b">> >>}}

Dev == [Name |-> <<"d">>, Email |-> <<"d", "@">>]

\* The authors that skip_authors is meant for: one matched by name only, one
\* by email only.
Bots == {[Name |-> <<"b">>, Email |-> <<"n", "@">>],
         [Name |-> <<"r">>, Email |-> <<"b", "@">>]}

\* What a commit of the run's repository may be: a refused title, an
\* accepted title over a footer that holds the refused text, and a refused
\* title by a skipped author.
CommitKinds(bot) ==
    {[message |-> <<"w">>, author |-> Dev],
     [message |-> <<"o", LF, LF, "w">>, author |-> Dev],
     [message |-> <<"w">>, author |-> bot]}

\* The commit graphs of a run: one root commit, every other commit with one
\* to MaxParents parents.
RunGraphs ==
    {g \in Graphs(RunCommits) :
        \A c \in 2..RunCommits : g[c] # {} /\ Cardinality(g[c]) <= MaxParents}

Init ==
    /\ IdleArgs
    /\ config \in RunConfigs
    /\ parents \in RunGraphs
    /\ refs \in [{"main"} -> (1..RunCommits) \cup {NoCommit}]
    /\ \E bot \in Bots : \E kinds \in [1..RunCommits -> CommitKinds(bot)] :
          /\ message = [c \in 1..RunCommits |-> kinds[c].message]
          /\ author = [c \in 1..RunCommits |-> kinds[c].author]
    /\ IdleRange
    /\ IdleParse
    /\ pc = "start" /\ line = <<>> /\ commits = <<>> /\ parsed = <<>>
    /\ lookups = <<>> /\ result = NoResult

\* The defaults of Run with skip_merge_commits left as configured.
applyDefaultsMutKeepSkipMerge(cfg) ==
    [cfg EXCEPT !.Settings.MainRef = IF @ = "" THEN defaultMainRef ELSE @]

\* The defaults Run applies to the loaded configuration: main_ref when it
\* is not set, skip_merge_commits when it is false.
applyDefaults(cfg) ==
    [cfg EXCEPT !.Settings.MainRef = IF @ = "" THEN defaultMainRef ELSE @,
                !.Settings.SkipMergeCommits = IF ~@ THEN TRUE ELSE @]

\* Run, up to the dispatch on the input mode: the configuration is loaded,
\* which may fail, the defaults of main_ref and skip_merge_commits are
\* applied and the arguments are parsed, which may fail too; a head ref
\* sends the run to runArgsMode, none to runStdinMode.
RunStart ==
    /\ pc = "start"
    /\ IF LoadConfig(config) # ""
       THEN /\ result' = Error("failed to load config")
            /\ pc' = "done"
            /\ UNCHANGED <<config, baseRef, headRef>>
       ELSE LET cfg == applyDefaults(config)
                a   == parseArgs(cfg, args)
            IN IF a.err # ""
               THEN /\ result' = Error(a.err)
                    /\ pc' = "done"
                    /\ UNCHANGED <<config, baseRef, headRef>>
               ELSE /\ config' = cfg
                    /\ baseRef' = a.baseRef
                    /\ headRef' = a.headRef
                    /\ pc' = IF a.headRef # "" THEN "args" ELSE "scan"
                    /\ UNCHANGED result
    /\ UNCHANGED <<args, repoVars, rangeVars, parseVars,
                   line, commits, parsed, lookups>>

\* scanner.Scan() returns a line; it is trimmed and split into fields.
ScanLine ==
    /\ pc = "scan"
    /\ \E l \in Lines : line' = l
    /\ pc' = "line"
    /\ UNCHANGED <<config, argVars, repoVars, rangeVars, parseVars,
                   commits, parsed, lookups, result>>

\* line == "": continue
SkipBlank ==
    /\ pc = "line"
    /\ line = <<>>
    /\ pc' = "continue"
    /\ UNCHANGED <<config, argVars, repoVars, rangeVars, parseVars,
                   line, commits, parsed, lookups, result>>

\* A line of too few fields ends the run with an error.
SkipShortMutError ==
    /\ pc = "line"
    /\ line # <<>>
    /\ Len(line) < minRefFields
    /\ pc' = "done"
    /\ result' = Error("invalid ref line")
    /\ UNCHANGED <<config, argVars, repoVars, rangeVars, parseVars,
                   line, commits, parsed, lookups>>

\* len(fields) < minRefFields: continue
SkipShort ==
    /\ pc = "line"
    /\ line # <<>>
    /\ Len(line) < minRefFields
    /\ pc' = "continue"
    /\ UNCHANGED <<config, argVars, repoVars, rangeVars, parseVars,
                   line, commits, parsed, lookups, result>>

\* The guard of the delete case reading the remote object id.
IsDeleteMutRemote(fields) == fields[4] = gitZeroHash

\* localOID == gitZeroHash
IsDelete(fields) == fields[2] = gitZeroHash

\* Handle delete: continue
SkipDelete ==
    /\ pc = "line"
    /\ Len(line) >= minRefFields
    /\ IsDelete(line)
    /\ pc' = "continue"
    /\ UNCHANGED <<config, argVars, repoVars, rangeVars, parseVars,
                   line, commits, parsed, lookups, result>>

\* The loop goes to its next iteration: the locals of this one are gone.
Continue ==
    /\ pc = "continue"
    /\ pc' = "scan"
    /\ line' = <<>> /\ commits' = <<>> /\ parsed' = <<>> /\ lookups' = <<>>
    /\ UNCHANGED <<config, argVars, repoVars, rangeVars, parseVars, result>>

\* The range of an event, as the loop body determines it: "old..new" is the
\* pair <<old, new>>, a single commit <<new>>.  For a new branch the old end
\* is the commit the configured main ref resolves to.
commitRangeMutUpTo(cfg, localOID, remoteOID) ==
    IF remoteOID = gitZeroHash
    THEN [err |-> "", range |-> <<localOID>>, calls |-> <<>>]
    ELSE [err |-> "", range |-> <<remoteOID, localOID>>, calls |-> <<>>]

\* The range of a new branch falling back to the whole history of localOID
\* when the main ref does not resolve.
commitRangeMutNoMainUpTo(cfg, localOID, remoteOID) ==
    IF remoteOID = gitZeroHash
    THEN LET mainRef == resolveRefOrSHA(cfg.Settings.MainRef)
         IN [err   |-> "",
             range |-> IF mainRef.err # "" THEN <<localOID>>
                       ELSE <<mainRef.commit, localOID>>,
             calls |-> <<"ResolveRevision">>]
    ELSE [err |-> "", range |-> <<remoteOID, localOID>>, calls |-> <<>>]

commitRange(cfg, localOID, remoteOID) ==
    IF remoteOID = gitZeroHash
    THEN LET mainRef == resolveRefOrSHA(cfg.Settings.MainRef)
         IN [err   |-> mainRef.err,
             range |-> <<mainRef.commit, localOID>>,
             calls |-> <<"ResolveRevision">>]
    ELSE [err |-> "", range |-> <<remoteOID, localOID>>, calls |-> <<>>]

\* checkCommits taking the whole history of the new commit when the old one
\* is not in the repository.
checkCommitsGetMutOldMissing(range) ==
    IF Len(range) = 2 /\ CommitObject(range[1])
    THEN getCommitsInRange(range[1], range[2])
    ELSE getCommitsUpTo(range[Len(range)])

\* checkCommits, its first half: a range goes to getCommitsInRange, a single
\* commit to getCommitsUpTo.
checkCommitsGet(range) ==
    IF Len(range) = 2
    THEN getCommitsInRange(range[1], range[2])
    ELSE getCommitsUpTo(range[1])

\* The rest of the loop body up to the return of the resolver inside
\* checkCommits.
GetCommits ==
    /\ pc = "line"
    /\ Len(line) >= minRefFields
    /\ ~IsDelete(line)
    /\ LET cr == commitRange(config, line[2], line[4])
       IN IF cr.err # ""
          THEN /\ result' = Error("failed to resolve main ref")
               /\ lookups' = cr.calls
               /\ pc' = "done"
               /\ UNCHANGED commits
          ELSE LET got == checkCommitsGet(cr.range)
               IN /\ lookups' = cr.calls \o got.calls
                  /\ IF got.err # ""
                     THEN /\ result' = Error("failed to get commits")
                          /\ pc' = "done"
                          /\ UNCHANGED commits
                     ELSE /\ commits' = got.commits
                          /\ pc' = "validate"
                          /\ UNCHANGED result
    /\ UNCHANGED <<config, argVars, repoVars, rangeVars, parseVars, line, parsed>>

\* checkCommits goes on with validateCommits(config, commits, ref); an error
\* ends the run, nil lets the loop continue.
ValidateCommits ==
    /\ pc = "validate"
    /\ LET v == validateCommits(config, commits, line[1])
       IN /\ parsed' = v.parsed
          /\ IF v.err # Nil
             THEN result' = v.err /\ pc' = "done"
             ELSE pc' = "continue" /\ UNCHANGED result
    /\ UNCHANGED <<config, argVars, repoVars, rangeVars, parseVars, line, commits, lookups>>

\* scanner.Scan() returns false at the end of the input: the run succeeds.
EndOfInput ==
    /\ pc = "scan"
    /\ pc' = "done"
    /\ result' = Nil
    /\ UNCHANGED <<config, argVars, repoVars, rangeVars, parseVars,
                   line, commits, parsed, lookups>>

\* scanner.Scan() returns false and scanner.Err() is not nil.
ScanError ==
    /\ pc = "scan"
    /\ pc' = "done"
    /\ result' = Error("error reading stdin")
    /\ UNCHANGED <<config, argVars, repoVars, rangeVars, parseVars,
                   line, commits, parsed, lookups>>

Next ==
    \/ RunStart
    \/ ScanLine
    \/ SkipBlank
    \/ SkipShort
    \/ SkipDelete
    \/ Continue
    \/ GetCommits
    \/ ValidateCommits
    \/ EndOfInput
    \/ ScanError

Spec == Init /\ [][Next]_vars

\* ------------------------------------------------ properties of the run

\* A commit with more than one parent.
MergeCommit(c) == Cardinality(parents[c]) > 1

\* The author's name or email matches a configured skip_authors pattern.
AuthorSkipped(c) ==
    \E i \in 1..Len(config.Settings.SkipAuthors) :
        \/ MatchString(config.Settings.SkipAuthors[i], author[c].Name)
        \/ MatchString(config.Settings.SkipAuthors[i], author[c].Email)

Surviving(c) == ~MergeCommit(c) /\ ~AuthorSkipped(c)

HasViolation(c) ==
    EvaluateRules(config.Rules, ParseCommitMessage(message[c])) # <<>>

\* A surviving commit with a rule violation.
Offending(c) == Surviving(c) /\ HasViolation(c)

\* The line in hand is a ref update that is no deletion.
UpdateLine == Len(line) >= 4 /\ line[2] # 0

\* The old end of the range of the event in hand: the commit of the main ref
\* for a new branch, else the remote object id.
EventBase == IF line[4] = 0 THEN refs[config.Settings.MainRef] ELSE line[4]

\* Reachable from the local object id and not from the old end.
EventRange == Reach(line[2]) \ Reach(EventBase)

\* The event in hand has been through validateCommits.
EventValidated ==
    \/ (pc = "continue" /\ UpdateLine)
    \/ (pc = "done" /\ result.kind = "validation")

\* C4: the run meeting no other error (configuration loaded, endpoints
\* resolved, input read), an event passes validation exactly when no
\* surviving commit of its resolved range has a violation, and the run ends
\* with the validation error exactly when one has, also when only a commit
\* below the tip has one; the run succeeds only from the head of the loop,
\* every event before having passed.
C4_FailsIffOffendingCommit ==
    /\ EventValidated =>
          /\ Range(commits) = EventRange
          /\ (pc = "continue") <=> (\A c \in EventRange : ~Offending(c))
          /\ (result.kind = "validation") <=> (\E c \in EventRange : Offending(c))
    /\ result = Nil => (pc = "done" /\ line = <<>> /\ parsed = <<>>)

\* The run failed on a pushed range whose tip passes: the offending commit
\* lies below the tip.
C4_Witness ==
    /\ pc = "done" /\ result.kind = "validation"
    /\ line[4] # 0
    /\ ~HasViolation(line[2]) /\ Surviving(line[2])
    /\ result.commit # line[2]

\* The surviving commits of a sequence, in its order.
SurvivingOf(cs) == SelectSeq(cs, Surviving)

\* C5: the commit of the validation error is the first offending commit of
\* the event in resolver order, every event before it having passed; the
\* commits parsed and evaluated are the surviving ones up to it and no
\* later one, and the run takes no step after the error.
C5_Inv ==
    /\ result.kind = "validation" =>
          /\ pc = "done"
          /\ \E k \in 1..Len(commits) :
                /\ result.commit = commits[k]
                /\ Offending(commits[k])
                /\ \A j \in 1..(k - 1) : ~Offending(commits[j])
                /\ parsed = SurvivingOf(SubSeq(commits, 1, k))
          /\ result.ref = line[1]
          /\ result.violations =
                EvaluateRules(config.Rules, ParseCommitMessage(message[result.commit]))
    /\ (pc = "continue" /\ UpdateLine) =>
          /\ \A c \in Range(commits) : ~Offending(c)
          /\ parsed = SurvivingOf(commits)

C5_FirstOffendingCommitStopsRun ==
    /\ []C5_Inv
    /\ [][pc # "done"]_vars
    /\ [][pc = "continue" => (pc' = "scan" /\ result' = NoResult)]_vars

\* The error names a commit with a second offending commit after it that
\* was not parsed.
C5_Witness ==
    /\ pc = "done" /\ result.kind = "validation"
    /\ \E k \in 1..Len(commits) :
          /\ Offending(commits[k])
          /\ commits[k] # result.commit
          /\ commits[k] \notin Range(parsed)

\* The event in hand is a new branch and has reached validateCommits.
NewBranchChecked ==
    /\ pc \in {"validate", "continue", "done"}
    /\ UpdateLine /\ line[4] = 0
    /\ result.kind \in {"none", "validation"}

\* C6: for a new-branch event (remoteOID zero, localOID not) the commits
\* handed to validation are exactly those reachable from localOID and not
\* from the commit main_ref resolves to, and no commit on main is parsed;
\* with both resolvable the event does reach validation.
C6_NewBranchAgainstMain ==
    /\ NewBranchChecked =>
          /\ refs[config.Settings.MainRef] \in Commits
          /\ Range(commits) =
                Reach(line[2]) \ Reach(refs[config.Settings.MainRef])
          /\ NoDup(commits)
          /\ Range(parsed) \subseteq Range(commits)
          /\ Range(parsed) \cap Reach(refs[config.Settings.MainRef]) = {}
    /\ (pc = "done" /\ UpdateLine /\ line[4] = 0 /\ result.kind \notin {"none", "validation"})
          => (refs[config.Settings.MainRef] = NoCommit \/ line[2] \notin Commits)

\* A new branch passed although a commit on main is an offending one, and
\* the branch holds a commit of its own.
C6_Witness ==
    /\ pc = "continue" /\ UpdateLine /\ line[4] = 0
    /\ commits # <<>>
    /\ \E c \in Reach(refs[config.Settings.MainRef]) :
          Offending(c) /\ c \in Reach(line[2])

\* The line in hand is a deletion: localOID is the zero hash.
DeleteLine == Len(line) >= 4 /\ line[2] = 0

\* C7: an event whose localOID is the zero hash is skipped whatever its
\* remoteOID: nothing is looked up in the repository, no commit is
\* validated, and the loop goes on with the next line.
C7_Inv ==
    (pc \in {"continue", "validate", "done"} /\ DeleteLine) =>
        /\ pc = "continue"
        /\ lookups = <<>> /\ commits = <<>> /\ parsed = <<>>
        /\ result = NoResult

C7_DeleteIsSkipped ==
    /\ []C7_Inv
    /\ [][(pc = "line" /\ DeleteLine) =>
             (pc' = "continue" /\ UNCHANGED <<lookups, commits, parsed, result>>)]_vars
    /\ [][(pc = "continue" /\ DeleteLine) => pc' = "scan"]_vars

\* A deletion whose remoteOID names no object of the repository was skipped.
C7_Witness ==
    pc = "continue" /\ DeleteLine /\ line[4] = UnknownOID /\ lookups = <<>>

\* The line in hand is blank or has fewer than 4 fields.
IgnoredLine == Len(line) < 4

\* The state at the head of the loop: what a run has left of the lines read
\* so far.
LoopHead ==
    /\ line = <<>> /\ commits = <<>> /\ parsed = <<>> /\ lookups = <<>>
    /\ result = NoResult

\* C8: a blank line or a line of fewer than 4 fields causes no repository
\* access and no validation, and leaves the run, at the head of the loop,
\* in the very state it was in before the line was read: the rest of the
\* input is handled as if the line were not there.
C8_Inv ==
    /\ pc = "scan" => LoopHead
    /\ (pc \in {"continue", "validate"} /\ IgnoredLine) =>
          /\ pc = "continue"
          /\ lookups = <<>> /\ commits = <<>> /\ parsed = <<>>
          /\ result = NoResult
    /\ (pc = "done" /\ IgnoredLine) =>
          /\ result \in {Nil, Error("error reading stdin"),
                         Error("failed to load config")}
          /\ line = <<>> /\ lookups = <<>> /\ commits = <<>> /\ parsed = <<>>

C8_ShortLinesIgnored ==
    /\ []C8_Inv
    /\ [][(pc = "line" /\ IgnoredLine) =>
             (pc' = "continue" /\
              UNCHANGED <<config, argVars, repoVars, line, lookups, commits, parsed, result>>)]_vars
    /\ [][(pc = "continue" /\ IgnoredLine) =>
             (pc' = "scan" /\ LoopHead' /\ UNCHANGED <<config, repoVars>>)]_vars

\* A line of three fields was ignored.
C8_Witness ==
    pc = "continue" /\ Len(line) = 3 /\ lookups = <<>> /\ result = NoResult

\* The run has loaded its configuration and gone on.
ConfigLoaded == pc # "start" /\ result.kind # "failed to load config"

\* A skip_authors pattern is found in the text.
SkipPatternIn(text) ==
    \E i \in 1..Len(config.Settings.SkipAuthors) :
        MatchString(config.Settings.SkipAuthors[i], text)

\* C17: a commit whose author name or author email matches a skip_authors
\* pattern is never parsed or evaluated and is never the commit of the
\* validation error; a commit without a match on either field, and no merge,
\* is parsed when the event passes.
C17_AuthorSkip ==
    /\ \A c \in Range(parsed) :
          ~SkipPatternIn(author[c].Name) /\ ~SkipPatternIn(author[c].Email)
    /\ result.kind = "validation" =>
          /\ ~SkipPatternIn(author[result.commit].Name)
          /\ ~SkipPatternIn(author[result.commit].Email)
    /\ (pc = "continue" /\ UpdateLine) =>
          \A c \in Range(commits) :
              (/\ ~SkipPatternIn(author[c].Name)
               /\ ~SkipPatternIn(author[c].Email)
               /\ ~MergeCommit(c)) => c \in Range(parsed)

\* An event passed with a commit that has a violation and is skipped for
\* its author's email alone, next to a commit that was parsed.
C17_Witness ==
    /\ pc = "continue" /\ UpdateLine
    /\ parsed # <<>>
    /\ \E c \in Range(commits) :
          /\ ~MergeCommit(c) /\ HasViolation(c)
          /\ SkipPatternIn(author[c].Email) /\ ~SkipPatternIn(author[c].Name)
          /\ c \notin Range(parsed)

InvalidSkipPattern ==
    \E i \in 1..Len(config.Settings.SkipAuthors) :
        ~RegexpCompiles(config.Settings.SkipAuthors[i])

\* C19: a configuration with a skip_authors pattern that does not compile
\* fails to load and ends the run before any line is read, so in a run
\* that reaches validation every skip_authors pattern compiles.
C19_InvalidSkipPatternRejected ==
    /\ ConfigLoaded => ~InvalidSkipPattern
    /\ (pc # "start" /\ InvalidSkipPattern) =>
          /\ pc = "done"
          /\ result = Error("failed to load config")
          /\ line = <<>> /\ commits = <<>> /\ parsed = <<>> /\ lookups = <<>>

\* A run ended at the load of a configuration with such a pattern.
C19_Witness ==
    pc = "done" /\ InvalidSkipPattern /\ result.kind = "failed to load config"

\* C22 as stated, for fail_fast false: a failed run has covered every
\* offending commit of the checked range, not only the first.
C22_FailFastFalseCoversAll ==
    (result.kind = "validation" /\ ~config.Settings.FailFast) =>
        \A c \in EventRange : Offending(c) => c \in Range(parsed)

\* C27: a skipped commit alone is left out of validation: the commits its
\* parents bring into the range stay in it, every surviving commit of the
\* range is parsed when the event passes, and an offending one fails the
\* run also when it is reachable through a skipped merge commit only.
C27_SkipKeepsAncestry ==
    /\ EventValidated =>
          /\ \A s \in Range(commits) :
                ~Surviving(s) => (Reach(s) \cap EventRange) \subseteq Range(commits)
          /\ (\E c \in EventRange : Offending(c)) => result.kind = "validation"
    /\ (pc = "continue" /\ UpdateLine) =>
          \A c \in EventRange : Surviving(c) => c \in Range(parsed)

\* The run failed on a parent of the pushed tip, a merge commit that has a
\* violation itself and is skipped as a merge; the parent is not reachable
\* through another parent of the tip.
C27_Witness ==
    /\ pc = "done" /\ result.kind = "validation"
    /\ MergeCommit(line[2]) /\ HasViolation(line[2]) /\ ~AuthorSkipped(line[2])
    /\ result.commit \in parents[line[2]]
    /\ \E p \in parents[line[2]] \ {result.commit} : result.commit \notin Reach(p)

\* An object id of the event in hand names no commit of the repository.
EndpointMissing ==
    /\ pc \in {"validate", "continue", "done"} /\ UpdateLine
    /\ (line[2] \notin Commits \/ (line[4] # 0 /\ line[4] \notin Commits))

\* The event in hand is a new branch and the main ref does not resolve.
MainRefMissing ==
    /\ pc \in {"validate", "continue", "done"} /\ UpdateLine
    /\ line[4] = 0 /\ refs[config.Settings.MainRef] = NoCommit

\* The run ended with this error before any commit of the event was
\* validated.
EndedWith(kind) ==
    /\ pc = "done" /\ result = Error(kind)
    /\ commits = <<>> /\ parsed = <<>>

C29_MainRefMissingFailsRun ==
    MainRefMissing =>
        /\ EndedWith("failed to resolve main ref")
        /\ lookups = <<"ResolveRevision">>

\* Such a run, the new branch holding no commit with a violation.
C29_Witness ==
    /\ EndedWith("failed to resolve main ref")
    /\ UpdateLine /\ line[4] = 0 /\ line[2] \in Commits
    /\ \A c \in Reach(line[2]) : ~HasViolation(c)

\* -------------------------------------------- SpecConfig: LoadConfig calls

\* The rules a configuration file may hold: names missing or repeated, a
\* type and a scope that do not exist, patterns missing or not compiling.
FileRules ==
    [Name : {"", "a", "b"}, Type : {"deny", "warn"}, Scope : {"title", "header"},
     Pattern : {<<>>, <<"w">>, <<"(">>}, Message : {""}]

FileConfigs ==
    {[Rules |-> rs,
      Settings |-> [FailFast |-> FALSE, SkipMergeCommits |-> FALSE,
                    SkipAuthors |-> sa, MainRef |-> ""]] :
        rs \in UNION {[1..n -> FileRules] : n \in 0..MaxConfigRules},
        sa \in {<<>>, << <<"b">> >>, << <<"b">>, <<"(">> >>}}

InitConfig ==
    /\ IdleArgs
    /\ config \in FileConfigs
    /\ parents = <<>> /\ refs = [r \in {"main"} |-> NoCommit]
    /\ message = <<>> /\ author = <<>>
    /\ IdleRange
    /\ IdleParse
    /\ pc = "load"
    /\ line = <<>> /\ commits = <<>> /\ parsed = <<>> /\ lookups = <<>>
    /\ result = NoResult

\* config, err := LoadConfig(".")
CallLoadConfig ==
    /\ pc = "load"
    /\ result' = IF LoadConfig(config) # "" THEN Error(LoadConfig(config)) ELSE Nil
    /\ pc' = "loaded"
    /\ UNCHANGED <<config, argVars, repoVars, rangeVars, parseVars,
                   line, commits, parsed, lookups>>

NextConfig == CallLoadConfig

SpecConfig == InitConfig /\ [][NextConfig]_vars

\* C20 as stated: in every configuration LoadConfig accepts every rule name
\* is non-empty and the rule names are pairwise distinct.
C20_RuleNamesUnique ==
    (pc = "loaded" /\ result = Nil) =>
        /\ \A i \in 1..Len(config.Rules) : config.Rules[i].Name # ""
        /\ \A i, j \in 1..Len(config.Rules) :
              i # j => config.Rules[i].Name # config.Rules[j].Name

\* A rule no configuration may hold: its pattern is missing or does not
\* compile, or its type or scope is none of the known ones.
BadRule(r) ==
    \/ r.Pattern = <<>>
    \/ ~RegexpCompiles(r.Pattern)
    \/ r.Type \notin RuleTypes
    \/ r.Scope \notin Scopes

\* C21: LoadConfig fails when there is no rule or when any rule has an
\* empty or uncompilable pattern, an unknown type or an unknown scope; so
\* every rule of a configuration it returns has a known type and scope and
\* a pattern that compiled.
C21_BadRuleFailsLoad ==
    pc = "loaded" =>
        /\ (config.Rules = <<>> \/ \E i \in 1..Len(config.Rules) : BadRule(config.Rules[i]))
              => result = Error("invalid config")
        /\ result = Nil =>
              /\ config.Rules # <<>>
              /\ \A i \in 1..Len(config.Rules) : ~BadRule(config.Rules[i])

\* The load failed for a second rule whose pattern does not compile, all
\* else being in order.
C21_Witness ==
    /\ pc = "loaded" /\ result = Error("invalid config")
    /\ Len(config.Rules) = 2
    /\ ~BadRule(config.Rules[1]) /\ config.Rules[1].Name # ""
    /\ config.Rules[2].Name # "" /\ config.Rules[2].Type \in RuleTypes
    /\ config.Rules[2].Scope \in Scopes /\ config.Rules[2].Pattern = <<"(">>
    /\ ~InvalidSkipPattern

\* ------------------------------ SpecNorm: messages of arbitrary characters

\* The characters of a message under test.
MsgChars == {"a", CR, LF}

InitNorm ==
    /\ IdleArgs
    /\ config = NoConfig
    /\ parents = <<>> /\ refs = [r \in {"main"} |-> NoCommit]
    /\ message = <<>> /\ author = <<>>
    /\ IdleRange
    /\ IdleRun
    /\ msgLines = <<>>
    /\ \E n \in 0..MaxMsgChars : raw \in [1..n -> MsgChars]
    /\ parseOut = NoParse
    /\ ppc = "call"

NextNorm == CallParseCommitMessage

SpecNorm == InitNorm /\ [][NextNorm]_vars

\* C30 as stated: parsing the Raw of a parsed message gives the same four
\* fields again, and Raw holds no CR LF pair and does not end in LF.
C30_NormalizationIdempotent ==
    ppc = "parsed" =>
        /\ ParseCommitMessage(parseOut.Raw) = parseOut
        /\ \A i \in 2..Len(parseOut.Raw) :
              ~(parseOut.Raw[i - 1] = CR /\ parseOut.Raw[i] = LF)
        /\ parseOut.Raw = <<>> \/ parseOut.Raw[Len(parseOut.Raw)] # LF


\* ------------------------------------ SpecArgs: runs with command-line flags

\* The configurations of these runs: main_ref not set, set to "main", set to
\* another name; and one that does not load.
ArgConfigs ==
    {[Rules |-> <<PreventWip>>,
      Settings |-> [FailFast |-> FALSE, SkipMergeCommits |-> FALSE,
                    SkipAuthors |-> sa, MainRef |-> mr]] :
        mr \in {"", "main", "dev"}, sa \in {<<>>}}
    \cup {[Rules |-> <<PreventWip>>,
           Settings |-> [FailFast |-> FALSE, SkipMergeCommits |-> FALSE,
                         SkipAuthors |-> << <<"(">> >>, MainRef |-> ""]]}

\* The commit graphs of these runs: one root commit, every other commit with
\* one to MaxParents parents.
ArgGraphs ==
    {g \in Graphs(ArgCommits) :
        \A c \in 2..ArgCommits : g[c] # {} /\ Cardinality(g[c]) <= MaxParents}

\* The refs of the repository: main and dev may be missing, and there may be
\* a ref whose name spells the object id of commit 2 while it points to
\* commit 1.
ArgRefs ==
    {("main" :> m) @@ ("dev" :> d) @@ ("2" :> t) :
        m \in {NoCommit, 1}, d \in {NoCommit, 2}, t \in {NoCommit, 1}}

\* What --base-ref and --head-ref may be: not given, a ref name, a string
\* that is a ref name and an object id, the object id of the newest commit,
\* an object id that is not in the repository.
ArgIdents == {"", "main", "2", HashString(ArgCommits), HashString(UnknownOID)}

ArgLists ==
    {[parse |-> "ok", base |-> b, head |-> h] : b \in ArgIdents, h \in ArgIdents}
    \cup {[parse |-> "error", base |-> "", head |-> ""]}

InitArgs ==
    /\ config \in ArgConfigs
    /\ parents \in ArgGraphs
    /\ refs \in ArgRefs
    /\ message \in [1..ArgCommits -> {<<"w">>, <<"o">>}]
    /\ author = [c \in 1..ArgCommits |-> Dev]
    /\ args \in ArgLists /\ baseRef = "" /\ headRef = ""
    /\ IdleRange
    /\ IdleParse
    /\ pc = "start" /\ line = <<>> /\ commits = <<>> /\ parsed = <<>>
    /\ lookups = <<>> /\ result = NoResult

\* Run dispatches to runArgsMode and returns what it returns.
RunArgsMode ==
    /\ pc = "args"
    /\ LET out == runArgsMode(config, baseRef, headRef)
       IN /\ result' = out.err
          /\ commits' = out.commits
          /\ parsed' = out.parsed
          /\ lookups' = out.calls
    /\ pc' = "done"
    /\ UNCHANGED <<config, argVars, repoVars, rangeVars, parseVars, line>>

\* Without flags the run reads stdin, which is empty here.
NextArgs ==
    \/ RunStart
    \/ RunArgsMode
    \/ EndOfInput

SpecArgs == InitArgs /\ [][NextArgs]_vars

\* The commit an identifier stands for: the commit of the ref of that name
\* when there is one, else the commit of that object id, else none.
CommitOf(id) ==
    IF id \in DOMAIN refs /\ refs[id] \in Commits THEN refs[id]
    ELSE IF NewHash(id) \in Commits THEN NewHash(id)
    ELSE NoCommit

HeadOnly == args.parse = "ok" /\ args.base = "" /\ args.head # ""
BaseOnly == args.parse = "ok" /\ args.base # "" /\ args.head = ""

\* runArgsMode has run and returned.
ArgsDone == pc = "done" /\ headRef # ""

HeadRequired == Error("--head-ref is required when using --base-ref")

ResolveErrors ==
    {"failed to resolve as ref or SHA",
     "failed to resolve as ref or SHA (hint: use --base-ref)"}

\* C23: with a head ref alone the base of the range is the configured
\* main_ref, "main" when the configuration does not set it, and the commits
\* validated are those reachable from the head and not from that ref.
C23_HeadOnlyUsesMainRef ==
    /\ [][(RunStart /\ HeadOnly /\ LoadConfig(config) = "") =>
            /\ baseRef' = (IF config.Settings.MainRef = "" THEN "main"
                           ELSE config.Settings.MainRef)
            /\ headRef' = args.head
            /\ pc' = "args"]_vars
    /\ []((ArgsDone /\ HeadOnly) =>
            /\ baseRef = config.Settings.MainRef
            /\ headRef = args.head
            /\ (CommitOf(baseRef) # NoCommit /\ CommitOf(headRef) # NoCommit) =>
                  /\ Range(commits) = Reach(CommitOf(headRef)) \ Reach(CommitOf(baseRef))
                  /\ result = Nil <=> \A c \in Range(commits) : ~Offending(c)
                  /\ result = Nil =>
                        Range(parsed) = {c \in Range(commits) : Surviving(c)})

\* A head alone against the ref main, which exists: the run has failed on a
\* commit of main..head.
C23_Witness ==
    /\ ArgsDone /\ HeadOnly
    /\ baseRef = "main" /\ refs["main"] \in Commits
    /\ result.kind = "validation" /\ result.ref = "main.." \o args.head
    /\ result.commit \notin Reach(refs["main"])

\* C24: with a base ref and no head ref the run ends with the error of
\* parseArgs: it never reaches stdin mode or the range mode, no object of the
\* repository is looked up, no line is read and no commit is validated.
C24_BaseAloneIsAnError ==
    BaseOnly =>
        /\ pc \in {"start", "done"}
        /\ pc = "done" =>
              /\ result = IF LoadConfig(config) = "" THEN HeadRequired
                          ELSE Error("failed to load config")
              /\ baseRef = "" /\ headRef = ""
              /\ lookups = <<>> /\ line = <<>>
              /\ commits = <<>> /\ parsed = <<>>

\* Such a run, the base being a commit of the repository.
C24_Witness ==
    /\ BaseOnly /\ pc = "done" /\ result = HeadRequired
    /\ CommitOf(args.base) # NoCommit

\* C25: each end of the range is the commit of the ref of that name, or
\* failing that the commit of that object id; when the base, or else the
\* head, is neither, the run fails with a resolution error that names it, no
\* commit is walked or validated; otherwise the range between the two
\* commits is checked.
C25_EndpointsNameThenHash ==
    ArgsDone =>
        IF CommitOf(baseRef) = NoCommit
        THEN /\ result.kind \in ResolveErrors /\ result.ref = baseRef
             /\ commits = <<>> /\ parsed = <<>>
             /\ "ForEach" \notin Range(lookups)
        ELSE IF CommitOf(headRef) = NoCommit
        THEN /\ result.kind \in ResolveErrors /\ result.ref = headRef
             /\ commits = <<>> /\ parsed = <<>>
             /\ "ForEach" \notin Range(lookups)
        ELSE /\ result.kind \in {"ok", "validation"}
             /\ Range(commits) = Reach(CommitOf(headRef)) \ Reach(CommitOf(baseRef))

\* The base was found as an object id only, the head in neither way.
C25_Witness ==
    /\ ArgsDone
    /\ baseRef \notin DOMAIN refs /\ baseRef # headRef
    /\ result.kind \in ResolveErrors /\ result.ref = headRef

=========================================================================
